---- MODULE Spec2Model ----
(***************************************************************************)
(* The water simulation of src/main.py: class Water (the height field, its *)
(* wave kernels, the drip emitter and the buoyancy pre_solve callback).    *)
(*                                                                         *)
(* Numbers.  The program computes in IEEE doubles; the model computes in   *)
(* fixed point:                                                            *)
(*   horizontal world coordinates (x1, x2, bb.left, bb.right): tenths,     *)
(*   vertical coordinates, levels and velocities: thousandths,             *)
(*   body velocities: whole units,  update's dt: sixtieths of a second,    *)
(*   the factors 0.5 ** dt and 0.6 ** dt: ten-thousandths.                 *)
(* Kernel coefficients are exact in twentieths.  A product is rounded to   *)
(* the grid where a double would be rounded (Fix).  The submersion         *)
(* fraction is kept as an exact quotient num/den, or NaN.                  *)
(***************************************************************************)
EXTENDS Integers, Sequences, FiniteSets

VARIABLES
    x1,          \* Water.x1, tenths
    x2,          \* Water.x2, tenths
    y,           \* Water.y (surf_y), thousandths
    xs,          \* Water.xs
    bot_verts,   \* Water.bot_verts
    levels,      \* Water.levels
    velocities,  \* Water.velocities
    vertices,    \* Water.vertices (<< >> until the first update)
    old,         \* the arrays as they were before the last call
    lastOp,      \* the last call: its inputs, and what it computed
    prevOp,      \* the pre_solve call before the last one (box-raising runs)
    steps        \* calls made so far

vars == <<x1, x2, y, xs, bot_verts, levels, velocities, vertices,
          old, lastOp, prevOp, steps>>

----------------------------------------------------------------------------
(* Bounds of the model *)

MaxSteps == 3
MaxUpdates == 2
MaxRaises == 3

----------------------------------------------------------------------------
(* Program constants *)

SUBDIV == 5
BUOYANCY_Y == 500
WATER_DRAG == 20
SURF_Y == 6500
BOT_Y == 0

\* VCONV and LCONV in twentieths: 0.05, 0.3, -0.8, 0.3, 0.05 and 0.05, 0.9, 0.05
VCONV == <<1, 6, -16, 6, 1>>
LCONV == <<1, 18, 1>>
KernelUnit == 20

\* the grid of the factors 0.5 ** dt and 0.6 ** dt
FactorUnit == 10000

\* 0.6 ** (1/180), the blend factor of one space.step(1 / 180)
DragBlend == 9972

\* 0.5 ** (dt60 / 60)
Damp(dt60) ==
    CASE dt60 = 0 -> 10000
      [] dt60 = 1 -> 9885
      [] dt60 = 2 -> 9772
      [] dt60 = 3 -> 9659
      [] OTHER    -> 5000

----------------------------------------------------------------------------
(* Arithmetic *)

Abs(n) == IF n < 0 THEN -n ELSE n

Min(m, n) == IF m < n THEN m ELSE n

Max(m, n) == IF m < n THEN n ELSE m

\* p / q rounded to the nearest grid point (q > 0)
Fix(p, q) == (2 * p + q) \div (2 * q)

\* Python's int() of a value given in tenths: truncation toward zero
Trunc10(t) == IF t >= 0 THEN t \div 10 ELSE -((-t) \div 10)

\* Python 3's round() of a value given in tenths: half to even
Round10(t) ==
    LET q == t \div 10
        r == t % 10
    IN  IF r < 5 THEN q
        ELSE IF r > 5 THEN q + 1
        ELSE IF q % 2 = 0 THEN q ELSE q + 1

\* numpy's clip
Clip(v, lo, hi) == Max(lo, Min(v, hi))

RECURSIVE SumTo(_, _)
SumTo(f, n) == IF n = 0 THEN 0 ELSE f[n] + SumTo(f, n - 1)

----------------------------------------------------------------------------
(* Water.__init__ *)

SampleCountRounded(span) == Round10(span) * SUBDIV + 1

\* size = int(x2 - x1) * self.SUBDIV + 1
SampleCount(span) == Trunc10(span) * SUBDIV + 1

\* np.linspace(x1, x2, size), in thousandths
Linspace(lo, hi, size) ==
    [i \in 1..size |->
        IF size = 1 THEN lo * 100
        ELSE lo * 100 + Fix((i - 1) * (hi - lo) * 100, size - 1)]

Zeros(size) == [i \in 1..size |-> 0]

Snapshot(l, v, x, bv) == [levels |-> l, velocities |-> v, xs |-> x, bot_verts |-> bv]

NoFrac == [nan |-> FALSE, num |-> 0, den |-> 1]

NoCall ==
    [op |-> "init", prior |-> "none", ran |-> FALSE, err |-> FALSE, dt |-> 0,
     left |-> 0, right |-> 0, bottom |-> 0, top |-> 0, vel |-> <<0, 0>>,
     a |-> 0, b |-> 0, idx |-> {},
     frac |-> NoFrac, wrote |-> FALSE,
     force |-> [nan |-> FALSE, bx |-> 0, by |-> 0]]

\* Water(surf_y, x1, x2, bot_y)
Construct(px1, px2) ==
    LET size == SampleCount(px2 - px1)
    IN  /\ x1 = px1
        /\ x2 = px2
        /\ y = SURF_Y
        /\ xs = Linspace(px1, px2, size)
        /\ velocities = Zeros(size)
        /\ levels = Zeros(size)
        /\ bot_verts = [i \in 1..size |-> BOT_Y]
        /\ vertices = << >>
        /\ old = Snapshot(Zeros(size), Zeros(size), Linspace(px1, px2, size),
                          [i \in 1..size |-> BOT_Y])
        /\ lastOp = NoCall
        /\ prevOp = NoCall
        /\ steps = 0

----------------------------------------------------------------------------
(* np.convolve(signal, kernel, 'same') *)

\* the tap signal[i] of a zero-padded signal, i counted from 1
Tap(signal, i) == IF i >= 1 /\ i <= Len(signal) THEN signal[i] ELSE 0

RECURSIVE ConvTaps(_, _, _, _, _)
ConvTaps(signal, kernel, i, shift, j) ==
    IF j = 0 THEN 0
    ELSE kernel[j] * Tap(signal, i + shift - (j - 1))
         + ConvTaps(signal, kernel, i, shift, j - 1)

ConvAtShifted(signal, kernel, i) ==
    ConvTaps(signal, kernel, i, Len(kernel) - 1, Len(kernel))

\* sample i of the 'same' convolution: the full convolution
\* c[k] = sum_j kernel[j] * signal[k - j], cut to its centred part
ConvAt(signal, kernel, i) ==
    ConvTaps(signal, kernel, i, (Len(kernel) - 1) \div 2, Len(kernel))

\* the length of np.convolve(signal, kernel, 'same'): max(M, N)
ConvLen(signal, kernel) == Max(Len(signal), Len(kernel))

----------------------------------------------------------------------------
(* Water.update *)

\* velocities += convolve(levels, VCONV * (dt * 60), 'same'); velocities *= 0.5 ** dt
VelocitiesAfter(l, v, dt60) ==
    [i \in 1..Len(v) |->
        Fix((v[i] + Fix(ConvAt(l, VCONV, i) * dt60, KernelUnit)) * Damp(dt60),
            FactorUnit)]

\* levels = convolve(levels, LCONV, 'same') + velocities * 10 * dt
LevelsAfter(l, v2, dt60) ==
    [i \in 1..ConvLen(l, LCONV) |->
        Fix(ConvAt(l, LCONV, i), KernelUnit) + Fix(v2[i] * 10 * dt60, 60)]

\* np.dstack((xs, levels + y, xs, bot_verts))
Vertices(l) == [i \in 1..Len(l) |-> <<xs[i], l[i] + y, xs[i], bot_verts[i]>>]

UpdateCore(dt60) ==
    /\ old' = Snapshot(levels, velocities, xs, bot_verts)
    /\ IF ConvLen(levels, VCONV) # Len(velocities)
       THEN \* the in-place += of a longer array raises ValueError
            /\ lastOp' = [NoCall EXCEPT !.op = "update", !.prior = lastOp.op,
                                         !.err = TRUE, !.dt = dt60]
            /\ UNCHANGED <<levels, velocities, vertices>>
       ELSE LET v2 == VelocitiesAfter(levels, velocities, dt60)
                l2 == LevelsAfter(levels, v2, dt60)
            IN  /\ velocities' = v2
                /\ levels' = l2
                /\ vertices' = Vertices(l2)
                /\ lastOp' = [NoCall EXCEPT !.op = "update", !.prior = lastOp.op,
                                             !.ran = TRUE, !.dt = dt60]
    /\ UNCHANGED <<x1, x2, y, xs, bot_verts>>

----------------------------------------------------------------------------
(* Water.drip *)

DripIndexOffByOne(n) == n - 9

\* the sample that index -9 names in an array of n samples, counted from 1
DripIndex(n) == n - 9 + 1

DripLevelsAccumulate(l) == [l EXCEPT ![DripIndex(Len(l))] = @ - 500]

\* self.levels[-9] = -0.5
DripLevels(l) == [l EXCEPT ![DripIndex(Len(l))] = -500]

\* self.velocities[-9] = 0
DripVelocities(v) == [v EXCEPT ![DripIndex(Len(v))] = 0]

\* index -9 of an array shorter than 9 raises IndexError
DripRaises(l) == DripIndex(Len(l)) < 1

DripCore ==
    /\ old' = Snapshot(levels, velocities, xs, bot_verts)
    /\ IF DripRaises(levels)
       THEN /\ lastOp' = [NoCall EXCEPT !.op = "drip", !.prior = lastOp.op, !.err = TRUE]
            /\ UNCHANGED <<levels, velocities>>
       ELSE /\ levels' = DripLevels(levels)
            /\ velocities' = DripVelocities(velocities)
            /\ lastOp' = [NoCall EXCEPT !.op = "drip", !.prior = lastOp.op, !.ran = TRUE]
    /\ UNCHANGED <<x1, x2, y, xs, bot_verts, vertices>>

----------------------------------------------------------------------------
(* Water.pre_solve *)

\* where Python's slice [a:b] of an array of n samples starts: a negative
\* index counts from the end, and the result is cut to 0..n
SliceBound(k, n) == IF k < 0 THEN Max(k + n, 0) ELSE Min(k, n)

\* the samples, counted from 1, that the slice [a:b] selects
SliceIndices(a, b, n) == {i \in 1..n : SliceBound(a, n) < i /\ i <= SliceBound(b, n)}

\* a = round(bb.left - inst.x1) * inst.SUBDIV  (and b, from bb.right)
SampleIndex(x) == Round10(x - x1) * SUBDIV

TermUnclipped(d, h) == [nan |-> FALSE, num |-> d]

\* np.clip((level - bb.bottom) / (bb.top - bb.bottom), 0, 1) of one sample, as a
\* numerator over TermDen(h); d = level - bb.bottom, h = bb.top - bb.bottom >= 0.
\* With h = 0 the quotient is +inf, -inf or (0 / 0) NaN, clipped to 1, 0, NaN.
Term(d, h) ==
    IF h > 0 THEN [nan |-> FALSE, num |-> Clip(d, 0, h)]
    ELSE IF d > 0 THEN [nan |-> FALSE, num |-> 1]
    ELSE IF d < 0 THEN [nan |-> FALSE, num |-> 0]
    ELSE [nan |-> TRUE, num |-> 0]

TermDen(h) == IF h > 0 THEN h ELSE 1

\* the sum of f over the samples idx of an array of n samples
SumOver(f, idx, n) == SumTo([i \in 1..n |-> IF i \in idx THEN f[i] ELSE 0], n)

\* frac_immersed = float(np.mean(np.clip(...))): NaN for an empty slice (the
\* mean of nothing) and when a term is NaN
FracImmersed(l, idx, bottom, top) ==
    LET h == top - bottom
        t == [i \in idx |-> Term(l[i] + y - bottom, h)]
    IN  IF idx = {} \/ \E i \in idx : t[i].nan
        THEN [nan |-> TRUE, num |-> 0, den |-> 1]
        ELSE [nan |-> FALSE, num |-> SumOver([i \in idx |-> t[i].num], idx, Len(l)),
              den |-> Cardinality(idx) * TermDen(h)]

\* frac_immersed < 1 (false for NaN)
BelowOne(frac) == ~frac.nan /\ frac.num < frac.den

\* velocities[a:b] * f + body.velocity.y * abs(body.velocity.y) * 0.1 * (1.0 - f)
Blend(v, vy) == Fix(v * DragBlend + vy * Abs(vy) * 100 * (FactorUnit - DragBlend), FactorUnit)

\* inst.velocities[a:b] = ...
BlendVelocities(v, idx, vy) ==
    [i \in 1..Len(v) |-> IF i \in idx THEN Blend(v[i], vy) ELSE v[i]]

\* (BUOYANCY * bb.area() - body.velocity * WATER_DRAG) before it is scaled by
\* frac_immersed, in ten-thousandths; the force applied is this times frac
ForceBase(left, right, bottom, top, vel) ==
    [bx |-> 0 - vel[1] * WATER_DRAG * 10000,
     by |-> BUOYANCY_Y * (right - left) * (top - bottom) - vel[2] * WATER_DRAG * 10000]

PreSolveCore(hasBody, left, right, bottom, top, vel) ==
    /\ old' = Snapshot(levels, velocities, xs, bot_verts)
    /\ IF ~hasBody
       THEN \* if not body: return False
            /\ lastOp' = [NoCall EXCEPT !.op = "pre_solve", !.prior = lastOp.op]
            /\ UNCHANGED velocities
       ELSE LET a == SampleIndex(left)
                b == SampleIndex(right)
                idx == SliceIndices(a, b, Len(levels))
                frac == FracImmersed(levels, idx, bottom, top)
                base == ForceBase(left, right, bottom, top, vel)
            IN  /\ velocities' = IF BelowOne(frac)
                                 THEN BlendVelocities(velocities, idx, vel[2])
                                 ELSE velocities
                /\ lastOp' = [op |-> "pre_solve", prior |-> lastOp.op, ran |-> TRUE, err |-> FALSE, dt |-> 0,
                              left |-> left, right |-> right,
                              bottom |-> bottom, top |-> top, vel |-> vel,
                              a |-> a, b |-> b, idx |-> idx,
                              frac |-> frac, wrote |-> BelowOne(frac),
                              force |-> [nan |-> frac.nan, bx |-> base.bx, by |-> base.by]]
    /\ UNCHANGED <<x1, x2, y, xs, bot_verts, levels, vertices>>

----------------------------------------------------------------------------
(* The program: one water, and the calls made on it *)

\* (x1, x2) of the waters constructed, tenths: spans 0.5, 1.7, 10 and 10.7,
\* that is 1, 6, 51 and 51 samples (the game's own Water(6.5) spans 25)
Worlds == {<<0, 5>>, <<0, 17>>, <<0, 100>>, <<0, 107>>}

\* dt of update, sixtieths of a second (on_draw passes 1 / 60)
DTs == {0, 1, 2}

\* (bb.left, bb.right), tenths
HBoxes == {<<-30, -10>>, <<-10, 10>>, <<-5, 15>>, <<22, 24>>, <<95, 115>>, <<120, 140>>}

\* (bb.bottom, bb.top), thousandths
VBoxes == {<<7000, 8000>>, <<6000, 7000>>, <<5000, 6000>>, <<6500, 6500>>}

\* body.velocity
Vels == {<<0, 0>>, <<3, -4>>}

Init == \E w \in Worlds : Construct(w[1], w[2])

Update ==
    /\ steps < MaxSteps
    /\ \E dt \in DTs : UpdateCore(dt)
    /\ steps' = steps + 1
    /\ UNCHANGED prevOp

Drip ==
    /\ steps < MaxSteps
    /\ DripCore
    /\ steps' = steps + 1
    /\ UNCHANGED prevOp

PreSolve ==
    /\ steps < MaxSteps
    /\ \/ \E hb \in HBoxes, vb \in VBoxes, vel \in Vels :
             PreSolveCore(TRUE, hb[1], hb[2], vb[1], vb[2], vel)
       \/ PreSolveCore(FALSE, 0, 0, 0, 0, <<0, 0>>)
    /\ steps' = steps + 1
    /\ UNCHANGED prevOp

Next == Update \/ Drip \/ PreSolve

Spec == Init /\ [][Next]_vars

----------------------------------------------------------------------------
(* Water.update on a mirror-symmetric field: a water of 11 samples with one   *)
(* impulse and its mirror image in levels and in velocities, then updates.    *)

SymWorld == <<0, 20>>

SymPositions == 1..6

SymLevels == {-500, 300}

SymVelocities == {0, 200}

\* an impulse amp at sample p and at its mirror image
Impulse(size, p, amp) ==
    [i \in 1..size |-> IF i = p \/ i = size + 1 - p THEN amp ELSE 0]

InitSym ==
    \E p \in SymPositions, q \in SymPositions, la \in SymLevels, va \in SymVelocities :
        LET size == SampleCount(SymWorld[2] - SymWorld[1])
            lx == Linspace(SymWorld[1], SymWorld[2], size)
        IN  /\ x1 = SymWorld[1]
            /\ x2 = SymWorld[2]
            /\ y = SURF_Y
            /\ xs = lx
            /\ bot_verts = [i \in 1..size |-> BOT_Y]
            /\ levels = Impulse(size, p, la)
            /\ velocities = Impulse(size, q, va)
            /\ vertices = << >>
            /\ old = Snapshot(Impulse(size, p, la), Impulse(size, q, va), lx,
                              [i \in 1..size |-> BOT_Y])
            /\ lastOp = NoCall
            /\ prevOp = NoCall
            /\ steps = 0

UpdateSym ==
    /\ steps < MaxUpdates
    /\ \E dt \in DTs : UpdateCore(dt)
    /\ steps' = steps + 1
    /\ UNCHANGED prevOp

SpecSym == InitSym /\ [][UpdateSym]_vars

----------------------------------------------------------------------------
(* Water.pre_solve for one box raised step by step over water that is left    *)
(* alone: a water of 11 samples, disturbed first (drip, update), then coupling *)
(* calls for a box of fixed extent over samples 0..4 and of fixed height.      *)

FracWorld == <<0, 20>>

FracExtent == <<0, 10>>

FracHeights == {100, 1000}

FracBottoms == {5500, 6000, 6300}

FracRaises == {100, 200, 500}

FracVels == {<<0, 0>>, <<3, -4>>}

InitFrac == Construct(FracWorld[1], FracWorld[2])

DisturbDrip ==
    /\ lastOp.op # "pre_solve"
    /\ steps < MaxUpdates
    /\ DripCore
    /\ steps' = steps + 1
    /\ UNCHANGED prevOp

DisturbUpdate ==
    /\ lastOp.op # "pre_solve"
    /\ steps < MaxUpdates
    /\ \E dt \in DTs : UpdateCore(dt)
    /\ steps' = steps + 1
    /\ UNCHANGED prevOp

PlaceBox ==
    /\ lastOp.op # "pre_solve"
    /\ \E h \in FracHeights, bottom \in FracBottoms, vel \in FracVels :
          PreSolveCore(TRUE, FracExtent[1], FracExtent[2], bottom, bottom + h, vel)
    /\ steps' = MaxUpdates + 1
    /\ prevOp' = lastOp

RaiseBox ==
    /\ lastOp.op = "pre_solve"
    /\ steps < MaxUpdates + MaxRaises
    /\ \E d \in FracRaises, vel \in FracVels :
          PreSolveCore(TRUE, lastOp.left, lastOp.right,
                       lastOp.bottom + d, lastOp.top + d, vel)
    /\ steps' = steps + 1
    /\ prevOp' = lastOp

NextFrac == DisturbDrip \/ DisturbUpdate \/ PlaceBox \/ RaiseBox

SpecFrac == InitFrac /\ [][NextFrac]_vars

----------------------------------------------------------------------------
(* The properties *)

\* the last call was a pre_solve that got past its early return
Coupled == lastOp.op = "pre_solve" /\ lastOp.ran

\* a fraction that is a number equal to 0, and one equal to 1
IsZero(frac) == ~frac.nan /\ frac.num = 0

IsOne(frac) == ~frac.nan /\ frac.num = frac.den

\* C1: in pre_solve the sample range [a, b) computed from the box is within
\* 0 <= a <= b <= sampleCount before levels[a:b] or velocities[a:b] is used.
C1_IndexRangeClamped ==
    Coupled =>
        /\ 0 <= lastOp.a
        /\ lastOp.a <= lastOp.b
        /\ lastOp.b <= Len(levels)

\* the box of the last call lies fully outside the water's span [x1, x2]
BoxOutside == lastOp.right < x1 \/ lastOp.left > x2

\* C2: for a box fully outside [x1, x2], or with an empty sample range,
\* pre_solve computes a submersion fraction of exactly 0, with no NaN in the
\* fraction or the force, and a zero extra force (the force is its base times
\* the fraction).  The velocities hold numbers in every state of the model:
\* they are written only when the fraction is a number below 1.
C2_OutsideIsZero ==
    (Coupled /\ (BoxOutside \/ lastOp.idx = {})) =>
        /\ IsZero(lastOp.frac)
        /\ ~lastOp.force.nan

\* the arrays were all zero before the last call
FlatBefore ==
    /\ \A i \in 1..Len(old.levels) : old.levels[i] = 0
    /\ \A i \in 1..Len(old.velocities) : old.velocities[i] = 0

\* the last call was a drip on a flat field of 51 samples over a span of 10
DripOnFlat51 ==
    /\ lastOp.op = "drip"
    /\ lastOp.ran
    /\ x2 - x1 = 100
    /\ Len(levels) = 51
    /\ FlatBefore

\* after the drip, the sample with zero-based index k holds level -0.5 and
\* velocity 0, and every other sample holds level 0 and velocity 0
OnlySampleSet(k) ==
    /\ levels[k + 1] = -500
    /\ velocities[k + 1] = 0
    /\ \A i \in 1..Len(levels) :
          i # k + 1 => levels[i] = 0 /\ velocities[i] = 0

\* C4 (as amended): on a flat field of 51 samples, drip sets the sample at
\* zero-based index 42 (= 51 - 9) to level -0.5 and velocity 0, and every
\* other sample's level and velocity remains 0.
C4_DripSetsIndex42 == DripOnFlat51 => OnlySampleSet(42)

\* C4 (as stated): the sample set is the one at zero-based index 41.
C4_DripSetsIndex41 == DripOnFlat51 => OnlySampleSet(41)

C4_Witness == DripOnFlat51 /\ steps = 1

\* C5: from any field state a drip changes at most one entry of levels and the
\* velocities entry at the same index, leaves every other entry, the lengths,
\* xs and bot_verts unchanged; a second drip right after changes nothing.
C5_DripFrame ==
    lastOp.op = "drip" =>
        /\ Len(levels) = Len(old.levels)
        /\ Len(velocities) = Len(old.velocities)
        /\ xs = old.xs
        /\ bot_verts = old.bot_verts
        /\ \E k \in 0..Len(levels) :
              \A i \in 1..Len(levels) :
                  i # k => levels[i] = old.levels[i] /\ velocities[i] = old.velocities[i]
        /\ lastOp.prior = "drip" => levels = old.levels /\ velocities = old.velocities

\* a second drip right after a first, on a field whose velocities are not flat
C5_Witness ==
    /\ lastOp.op = "drip"
    /\ lastOp.ran
    /\ lastOp.prior = "drip"
    /\ \E i \in 1..Len(old.velocities) : old.velocities[i] # 0
    /\ \E i \in 1..Len(old.levels) : old.levels[i] # 0

\* the box of the last call has no height, and its samples are in range
DegenerateInRange ==
    /\ Coupled
    /\ lastOp.top = lastOp.bottom
    /\ 0 <= lastOp.a
    /\ lastOp.a < lastOp.b
    /\ lastOp.b <= Len(levels)

\* C6: for a box with top == bottom each sample's term is 1 when the absolute
\* level (levels[i] + y) is >= bottom and 0 otherwise, level == bottom included,
\* so the fraction and the force are finite and the fraction is in [0, 1].
C6_DegenerateGuarded ==
    DegenerateInRange =>
        /\ ~lastOp.frac.nan
        /\ ~lastOp.force.nan
        /\ lastOp.frac.den = Cardinality(lastOp.idx)
        /\ lastOp.frac.num =
              Cardinality({i \in lastOp.idx : levels[i] + y >= lastOp.bottom})

\* C7: pre_solve never changes levels, never changes velocities outside the
\* sample range [a, b) of the body, and changes no velocity at all when the
\* fraction is 1; velocities are rewritten only when the fraction is < 1.
C7_PreSolveFrame ==
    lastOp.op = "pre_solve" =>
        /\ levels = old.levels
        /\ \A i \in 1..Len(velocities) :
              ~(lastOp.a <= i - 1 /\ i - 1 < lastOp.b) =>
                  velocities[i] = old.velocities[i]
        /\ IsOne(lastOp.frac) => velocities = old.velocities
        /\ velocities # old.velocities => BelowOne(lastOp.frac)

\* the three arrays have the same length n
Lengths(n) == Len(levels) = n /\ Len(velocities) = n /\ Len(xs) = n

\* C8 (as amended): after any sequence of update, drip and pre_solve calls
\* len(levels) == len(velocities) == len(xs) == int(span) * SUBDIV + 1, the
\* span truncated toward zero.
C8_LengthsTruncated == Lengths(Trunc10(x2 - x1) * SUBDIV + 1)

\* C8 (as stated): the common length is round(span) * SUBDIV + 1.
C8_LengthsRounded == Lengths(Round10(x2 - x1) * SUBDIV + 1)

\* a water of span 10.7 after three calls, the last of them an update
C8_Witness ==
    /\ x2 - x1 = 107
    /\ steps = 3
    /\ lastOp.op = "update"
    /\ lastOp.ran
    /\ lastOp.dt > 0
    /\ \E i \in 1..Len(levels) : levels[i] # 0

\* s reads the same from both ends
Mirror(s) == \A i \in 1..Len(s) : s[i] = s[Len(s) + 1 - i]

Surface(i) == levels[i] + y

\* the last call raised the box of the call before it over unchanged water
Raised ==
    /\ Coupled
    /\ prevOp.op = "pre_solve"
    /\ prevOp.ran
    /\ lastOp.bottom > prevOp.bottom
    /\ lastOp.top - lastOp.bottom = prevOp.top - prevOp.bottom
    /\ lastOp.idx = prevOp.idx
    /\ levels = old.levels

\* frac p < frac q, and frac p <= frac q, of two fractions that are numbers
Less(p, q) == p.num * q.den < q.num * p.den

LessEq(p, q) == p.num * q.den <= q.num * p.den

\* the fraction of a box of non-zero height over a non-empty sample range lies
\* in [0, 1], is 0 when bottom >= every sampled level and 1 when top <= every
\* sampled level
FracRange ==
    (Coupled /\ lastOp.top > lastOp.bottom /\ lastOp.idx # {}) =>
        /\ ~lastOp.frac.nan
        /\ 0 <= lastOp.frac.num
        /\ lastOp.frac.num <= lastOp.frac.den
        /\ (\A i \in lastOp.idx : lastOp.bottom >= Surface(i)) => IsZero(lastOp.frac)
        /\ (\A i \in lastOp.idx : lastOp.top <= Surface(i)) => IsOne(lastOp.frac)

\* C10 (as amended): for fixed water under a box of fixed non-zero height and
\* fixed extent with a non-empty sample range, the fraction lies in [0, 1], is
\* non-increasing as the box is moved upward, strictly decreases with an upward
\* move when before the move the level of at least one sample lay strictly
\* between the box's bottom and top, is 0 when bottom >= every sampled level
\* and 1 when top <= every sampled level.
C10_FracMonotone ==
    /\ FracRange
    /\ Raised =>
          /\ LessEq(lastOp.frac, prevOp.frac)
          /\ (\E i \in prevOp.idx : prevOp.bottom < Surface(i) /\ Surface(i) < prevOp.top)
                => Less(lastOp.frac, prevOp.frac)

\* C10 (as stated): the fraction strictly decreases with each upward move
\* while its value is strictly between 0 and 1.
C10_FracStrict ==
    (Raised /\ ~IsZero(prevOp.frac) /\ ~IsOne(prevOp.frac)) =>
        Less(lastOp.frac, prevOp.frac)

\* a raise over water that is not flat, from a fraction strictly between 0
\* and 1 to a smaller one
C10_Witness ==
    /\ Raised
    /\ \E i \in lastOp.idx, j \in lastOp.idx : Surface(i) # Surface(j)
    /\ ~IsZero(prevOp.frac)
    /\ ~IsOne(prevOp.frac)
    /\ ~IsZero(lastOp.frac)
    /\ Less(lastOp.frac, prevOp.frac)

====
